---------------------------- MODULE Spec2Model ----------------------------
(* Model of src/main.py: the three tools list_employees,                   *)
(* get_employee_by_id and add_employee, the connection provider            *)
(* get_db_connection, and the employees table they read and write.         *)
(* Tool invocations run concurrently in the slots of Procs; each step of a *)
(* tool body that talks to the store is one action, and each such step can *)
(* fail with an exception that the tool's except clause turns into an      *)
(* error envelope.                                                         *)
EXTENDS Integers, Sequences, FiniteSets, TLC

(* ------------------------------ bounds -------------------------------- *)

\* Total number of tool invocations dispatched in one behaviour.
MaxCalls == 2

\* Concurrent dispatch slots of the host runtime.
Procs == {1, 2}

\* Characters; text is a sequence of characters.
Whitespace == {" "}

\* Argument values the dispatcher may pass: for each text argument one
\* value that is blank and one that is not.
Names == {<< >>, <<" ", "A", " ">>}
Positions == {<<" ">>, <<"A">>}
Departments == {<<" ", " ">>, <<"A", " ">>}
Salaries == {-1, 0, 1}
Limits == {-1, 0, 1, 2}
EmployeeIds == {-1, 0, 1, 2}

\* Values datetime.now() may return (the wall clock is not monotonic).
Dates == {1, 2}

\* The table exists before the server starts: it is empty, or holds these
\* rows, numbered by its id sequence.
SeedRows ==
    {[id |-> 1, name |-> <<" ", "A", " ">>, position |-> <<"A">>,
      department |-> <<"A", " ">>, salary |-> 1, hire_date |-> 1],
     [id |-> 2, name |-> <<"A">>, position |-> <<"A">>,
      department |-> <<"A">>, salary |-> 1, hire_date |-> 2]}

(* ------------------------------ values -------------------------------- *)

\* Python's None.
None == [none |-> TRUE]

NoArgs == [none |-> TRUE]

NoResult == [kind |-> "none", error |-> << >>, value |-> None]

\* A value handed back to the dispatcher by a return statement.
Returned(v) == [kind |-> "ok", error |-> << >>, value |-> v]

\* {"error": <text>}; the text is kept as the sequence of its parts.
ErrorEnvelope(parts) == [kind |-> "error", error |-> parts, value |-> None]

\* An exception leaving the tool function.
Raised(cause) == [kind |-> "raised", error |-> <<cause>>, value |-> None]

\* str(e) of the exception each store step raises.
ConnectCause == "connect failed"
CursorCause == "cursor failed"
ExecuteCause == "execute failed"
FetchCause == "fetch failed"
CommitCause == "commit failed"

(* ------------------------------ str.strip ----------------------------- *)

RECURSIVE LStrip(_)
LStrip(s) ==
    IF s = << >> THEN s
    ELSE IF Head(s) \in Whitespace THEN LStrip(Tail(s)) ELSE s

RECURSIVE RStrip(_)
RStrip(s) ==
    IF s = << >> THEN s
    ELSE IF s[Len(s)] \in Whitespace THEN RStrip(SubSeq(s, 1, Len(s) - 1)) ELSE s

Strip(s) == RStrip(LStrip(s))

(* --------------------------- add_employee checks ---------------------- *)

\* Validate with the salary check written salary < 0.
ValidateSalaryLax(name, position, department, salary) ==
    IF Strip(name) = << >> THEN "Employee name cannot be empty."
    ELSE IF Strip(position) = << >> THEN "Employee position cannot be empty."
    ELSE IF Strip(department) = << >> THEN "Employee department cannot be empty."
    ELSE IF salary < 0 THEN "Employee salary must be a positive number."
    ELSE ""

\* Validate with the position and department checks in the other order.
ValidateSwapped(name, position, department, salary) ==
    IF Strip(name) = << >> THEN "Employee name cannot be empty."
    ELSE IF Strip(department) = << >> THEN "Employee department cannot be empty."
    ELSE IF Strip(position) = << >> THEN "Employee position cannot be empty."
    ELSE IF salary <= 0 THEN "Employee salary must be a positive number."
    ELSE ""

\* The four checks of add_employee: the message of the first one that
\* fails, "" when all pass.
Validate(name, position, department, salary) ==
    IF Strip(name) = << >> THEN "Employee name cannot be empty."
    ELSE IF Strip(position) = << >> THEN "Employee position cannot be empty."
    ELSE IF Strip(department) = << >> THEN "Employee department cannot be empty."
    ELSE IF salary <= 0 THEN "Employee salary must be a positive number."
    ELSE ""

(* ------------------------------ except clauses ------------------------ *)

Prefix(o) ==
    CASE o = "list" -> "It was not possible to hire employees: "
      [] o = "get" -> "Could not retrieve employee: "
      [] o = "add" -> "Could not add employee: "

\* An except clause that catches connection failures only.
HandleConnectOnly(o, cause) ==
    IF cause = ConnectCause THEN ErrorEnvelope(<<Prefix(o), cause>>)
    ELSE Raised(cause)

\* except Exception as e: return {"error": f"...: {str(e)}"}
Handle(o, cause) == ErrorEnvelope(<<Prefix(o), cause>>)

(* ------------------------------ the store ----------------------------- *)

Ids(R) == {r.id : r \in R}

Min(a, b) == IF a < b THEN a ELSE b

Range(s) == {s[i] : i \in 1..Len(s)}

\* TopRows for ORDER BY hire_date ASC.
TopRowsAscending(R, k) ==
    {s \in [1..k -> R] :
        /\ \A i, j \in 1..k : i # j => s[i] # s[j]
        /\ \A i \in 1..k : \A j \in 1..k : i < j => s[i].hire_date <= s[j].hire_date
        /\ \A r \in R \ Range(s) : \A i \in 1..k : s[i].hire_date <= r.hire_date}

\* Every order of the k rows of R with the latest hire_date, latest first.
TopRows(R, k) ==
    {s \in [1..k -> R] :
        /\ \A i, j \in 1..k : i # j => s[i] # s[j]
        /\ \A i \in 1..k : \A j \in 1..k : i < j => s[i].hire_date >= s[j].hire_date
        /\ \A r \in R \ Range(s) : \A i \in 1..k : s[i].hire_date >= r.hire_date}

\* SELECT ... FROM employees ORDER BY hire_date DESC LIMIT %s
\* (the result sets the store may produce; limit >= 0).
SelectRecent(R, limit) == TopRows(R, Min(limit, Cardinality(R)))

\* SelectById for WHERE id >= %s.
SelectByIdAtLeast(R, employee_id) ==
    IF \E r \in R : r.id >= employee_id
    THEN <<CHOOSE r \in R : r.id >= employee_id>>
    ELSE << >>

\* SELECT ... FROM employees WHERE id = %s
SelectById(R, employee_id) ==
    IF \E r \in R : r.id = employee_id
    THEN <<CHOOSE r \in R : r.id = employee_id>>
    ELSE << >>

\* An id computed from the number of committed rows.
NewIdFromCount(R, seq) == Cardinality(R) + 1

\* The id the store generates for an inserted row: the next value of the
\* table's sequence.
NewId(R, seq) == seq + 1

\* INSERT INTO employees (...) VALUES (%s, %s, %s, %s, %s): the new row.
InsertedRow(id, a, now) ==
    [id |-> id, name |-> a.name, position |-> a.position,
     department |-> a.department, salary |-> a.salary, hire_date |-> now]

\* A RETURNING clause that leaves out hire_date.
ReturningNoHireDate(r) ==
    [id |-> r.id, name |-> r.name, position |-> r.position,
     department |-> r.department, salary |-> r.salary]

\* RETURNING id, name, position, department, salary, hire_date
Returning(r) == r

\* A commit that never happens.
CommitNothing(R, pend) == R

\* A commit that replaces the rows of the same name.
CommitReplacing(R, pend) == {r \in R : \A n \in pend : r.name # n.name} \cup pend

\* conn.commit(): the rows of the transaction become persistent.
CommitRows(R, pend) == R \cup pend

\* cursor.fetchone()
FetchOne(rs) == IF rs = << >> THEN None ELSE rs[1]

\* cursor.fetchall()
FetchAll(rs) == rs

(* ------------------------------ state --------------------------------- *)

VARIABLES
    rows,       \* the committed rows of table employees
    seq,        \* last value of the table's id sequence
    open,       \* the connections that are open
    nconn,      \* number of connections the provider has created
    pc,         \* each slot's position in its tool body
    op,         \* the tool a slot runs: "list", "get", "add" or "none"
    args,       \* the tool's arguments
    conn,       \* local conn: the connection handle, 0 when unassigned
    pending,    \* rows inserted in the slot's open transaction
    cur,        \* the result set the slot's cursor holds
    val,        \* local employees / employee / new_employee
    result,     \* what the invocation handed back to the dispatcher
    steps,      \* the store operations the invocation has attempted
    exc,        \* str(e) of the exception the invocation raised, "" if none
    persisted,  \* the rows the invocation has made persistent
    rows0,      \* the committed rows when the slot was called
    since,      \* number of adds that had returned when the slot was called
    addLog,     \* the employee records successful adds returned, in order
    acquired,   \* the handles get_db_connection returned, in order
    calls       \* number of invocations dispatched so far

vars == <<rows, seq, open, nconn, pc, op, args, conn, pending, cur, val,
          result, steps, exc, persisted, rows0, since, addLog, acquired,
          calls>>

store == <<rows, seq>>
locals == <<conn, pending, cur, val>>
history == <<persisted, rows0, since, addLog, acquired, calls>>

Init ==
    /\ rows \in {{}, SeedRows}
    /\ seq = Cardinality(rows)
    /\ open = {}
    /\ nconn = 0
    /\ pc = [p \in Procs |-> "idle"]
    /\ op = [p \in Procs |-> "none"]
    /\ args = [p \in Procs |-> NoArgs]
    /\ conn = [p \in Procs |-> 0]
    /\ pending = [p \in Procs |-> {}]
    /\ cur = [p \in Procs |-> << >>]
    /\ val = [p \in Procs |-> None]
    /\ result = [p \in Procs |-> NoResult]
    /\ steps = [p \in Procs |-> << >>]
    /\ exc = [p \in Procs |-> ""]
    /\ persisted = [p \in Procs |-> {}]
    /\ rows0 = [p \in Procs |-> {}]
    /\ since = [p \in Procs |-> 0]
    /\ addLog = << >>
    /\ acquired = << >>
    /\ calls = 0

(* ------------------------------ dispatch ------------------------------ *)

\* The dispatcher starts tool o with arguments a in slot p.
Dispatch(p, o, a, first) ==
    /\ pc[p] = "idle"
    /\ calls < MaxCalls
    /\ calls' = calls + 1
    /\ op' = [op EXCEPT ![p] = o]
    /\ args' = [args EXCEPT ![p] = a]
    /\ pc' = [pc EXCEPT ![p] = first]
    /\ rows0' = [rows0 EXCEPT ![p] = rows]
    /\ since' = [since EXCEPT ![p] = Len(addLog)]
    /\ UNCHANGED <<store, open, nconn, locals, steps, exc, persisted,
                   addLog, acquired>>

CallList(p) ==
    \E limit \in Limits :
        /\ Dispatch(p, "list", [limit |-> limit], "connect")
        /\ UNCHANGED result

CallGet(p) ==
    \E id \in EmployeeIds :
        /\ Dispatch(p, "get", [employee_id |-> id], "connect")
        /\ UNCHANGED result

\* add_employee is entered and makes its four checks, which touch nothing
\* but the arguments: a failed check returns its error envelope at once.
CallAdd(p) ==
    \E n \in Names, po \in Positions, d \in Departments, s \in Salaries :
        LET m == Validate(n, po, d, s)
        IN /\ Dispatch(p, "add",
                       [name |-> n, position |-> po, department |-> d,
                        salary |-> s],
                       IF m # "" THEN "returned" ELSE "connect")
           /\ result' = [result EXCEPT ![p] =
                            IF m # "" THEN ErrorEnvelope(<<m>>) ELSE @]

\* The invocation ends in its except clause: the exception with text cause
\* becomes the returned error envelope. Nothing else is done: conn is not
\* closed and the transaction is neither committed nor rolled back.
Except(p, cause) ==
    /\ result' = [result EXCEPT ![p] = Handle(op[p], cause)]
    /\ exc' = [exc EXCEPT ![p] = cause]
    /\ pc' = [pc EXCEPT ![p] = "returned"]

Attempt(p, step) == steps' = [steps EXCEPT ![p] = Append(@, step)]

(* ------------------------------ tool steps ---------------------------- *)

\* psycopg2.connect(...): a new connection handle.
GetDbConnection(n) == n + 1

\* conn = get_db_connection()
Connect(p) ==
    /\ pc[p] = "connect"
    /\ Attempt(p, "connect")
    /\ \/ /\ nconn' = nconn + 1
          /\ conn' = [conn EXCEPT ![p] = GetDbConnection(nconn)]
          /\ open' = open \cup {conn'[p]}
          /\ acquired' = Append(acquired, conn'[p])
          /\ pc' = [pc EXCEPT ![p] = "cursor"]
          /\ UNCHANGED <<result, exc>>
       \/ /\ Except(p, ConnectCause)
          /\ UNCHANGED <<nconn, conn, open, acquired>>
    /\ UNCHANGED <<store, op, args, pending, cur, val, persisted, rows0,
                   since, addLog, calls>>

\* with conn.cursor() as cursor:
Cursor(p) ==
    /\ pc[p] = "cursor"
    /\ Attempt(p, "cursor")
    /\ \/ /\ pc' = [pc EXCEPT ![p] = "execute"]
          /\ UNCHANGED <<result, exc>>
       \/ Except(p, CursorCause)
    /\ UNCHANGED <<store, open, nconn, op, args, locals, history>>

\* cursor.execute(SELECT ... ORDER BY hire_date DESC LIMIT %s, (limit,))
\* The store rejects a negative LIMIT.
ExecuteList(p) ==
    /\ pc[p] = "execute" /\ op[p] = "list"
    /\ Attempt(p, "execute")
    /\ \/ /\ args[p].limit >= 0
          /\ \E rs \in SelectRecent(rows, args[p].limit) :
                 cur' = [cur EXCEPT ![p] = rs]
          /\ pc' = [pc EXCEPT ![p] = "fetch"]
          /\ UNCHANGED <<result, exc>>
       \/ /\ Except(p, ExecuteCause)
          /\ UNCHANGED cur
    /\ UNCHANGED <<store, open, nconn, op, args, conn, pending, val, history>>

\* cursor.execute(SELECT ... WHERE id = %s, (employee_id,))
ExecuteGet(p) ==
    /\ pc[p] = "execute" /\ op[p] = "get"
    /\ Attempt(p, "execute")
    /\ \/ /\ cur' = [cur EXCEPT ![p] = SelectById(rows, args[p].employee_id)]
          /\ pc' = [pc EXCEPT ![p] = "fetch"]
          /\ UNCHANGED <<result, exc>>
       \/ /\ Except(p, ExecuteCause)
          /\ UNCHANGED cur
    /\ UNCHANGED <<store, open, nconn, op, args, conn, pending, val, history>>

\* cursor.execute(INSERT ... RETURNING ..., (name, position, department,
\* salary, datetime.now())): the row joins the connection's transaction and
\* is the statement's result set. A statement that fails may have drawn its
\* id from the sequence already.
ExecuteAdd(p) ==
    /\ pc[p] = "execute" /\ op[p] = "add"
    /\ Attempt(p, "execute")
    /\ \/ /\ \E now \in Dates :
                 LET r == InsertedRow(NewId(rows, seq), args[p], now)
                 IN /\ pending' = [pending EXCEPT ![p] = {r}]
                    /\ cur' = [cur EXCEPT ![p] = <<Returning(r)>>]
          /\ seq' = seq + 1
          /\ pc' = [pc EXCEPT ![p] = "fetch"]
          /\ UNCHANGED <<result, exc>>
       \/ /\ Except(p, ExecuteCause)
          /\ seq' \in {seq, seq + 1}
          /\ UNCHANGED <<pending, cur>>
    /\ UNCHANGED <<rows, open, nconn, op, args, conn, val, history>>

\* employees = cursor.fetchall() / employee = cursor.fetchone()
Fetch(p) ==
    /\ pc[p] = "fetch"
    /\ Attempt(p, "fetch")
    /\ \/ /\ val' = [val EXCEPT ![p] =
                        IF op[p] = "list" THEN FetchAll(cur[p])
                        ELSE FetchOne(cur[p])]
          /\ pc' = [pc EXCEPT ![p] = IF op[p] = "add" THEN "commit" ELSE "close"]
          /\ UNCHANGED <<result, exc>>
       \/ /\ Except(p, FetchCause)
          /\ UNCHANGED val
    /\ UNCHANGED <<store, open, nconn, op, args, conn, pending, cur, history>>

\* conn.commit()
Commit(p) ==
    /\ pc[p] = "commit"
    /\ Attempt(p, "commit")
    /\ \/ /\ rows' = CommitRows(rows, pending[p])
          /\ pending' = [pending EXCEPT ![p] = {}]
          /\ persisted' = [persisted EXCEPT ![p] = @ \cup (rows' \ rows)]
          /\ pc' = [pc EXCEPT ![p] = "close"]
          /\ UNCHANGED <<result, exc>>
       \/ /\ Except(p, CommitCause)
          /\ UNCHANGED <<rows, pending, persisted>>
    /\ UNCHANGED <<seq, open, nconn, op, args, conn, cur, val, rows0, since,
                   addLog, acquired, calls>>

\* conn.close(); an open transaction is discarded.
Close(p) ==
    /\ pc[p] = "close"
    /\ Attempt(p, "close")
    /\ open' = open \ {conn[p]}
    /\ pending' = [pending EXCEPT ![p] = {}]
    /\ pc' = [pc EXCEPT ![p] = "return"]
    /\ UNCHANGED <<store, nconn, op, args, conn, cur, val, result, exc, history>>

\* return employees / return employee / return {"message": ..., "employee": ...}
Return(p) ==
    /\ pc[p] = "return"
    /\ result' = [result EXCEPT ![p] =
                     IF op[p] = "add"
                     THEN Returned([message |-> "Employee added successfully.",
                                    employee |-> val[p]])
                     ELSE Returned(val[p])]
    /\ addLog' = IF op[p] = "add" THEN Append(addLog, val[p]) ELSE addLog
    /\ pc' = [pc EXCEPT ![p] = "returned"]
    /\ UNCHANGED <<store, open, nconn, op, args, locals, steps, exc, persisted,
                   rows0, since, acquired, calls>>

\* The dispatcher has taken the result; the invocation's frame is gone and
\* the slot is free. A connection left open is never used again.
Finish(p) ==
    /\ pc[p] = "returned"
    /\ pc' = [pc EXCEPT ![p] = "idle"]
    /\ op' = [op EXCEPT ![p] = "none"]
    /\ args' = [args EXCEPT ![p] = NoArgs]
    /\ conn' = [conn EXCEPT ![p] = 0]
    /\ pending' = [pending EXCEPT ![p] = {}]
    /\ cur' = [cur EXCEPT ![p] = << >>]
    /\ val' = [val EXCEPT ![p] = None]
    /\ result' = [result EXCEPT ![p] = NoResult]
    /\ steps' = [steps EXCEPT ![p] = << >>]
    /\ exc' = [exc EXCEPT ![p] = ""]
    /\ persisted' = [persisted EXCEPT ![p] = {}]
    /\ rows0' = [rows0 EXCEPT ![p] = {}]
    /\ since' = [since EXCEPT ![p] = 0]
    /\ UNCHANGED <<store, open, nconn, addLog, acquired, calls>>

Next ==
    \E p \in Procs :
        \/ CallList(p)
        \/ CallGet(p)
        \/ CallAdd(p)
        \/ Connect(p)
        \/ Cursor(p)
        \/ ExecuteList(p)
        \/ ExecuteGet(p)
        \/ ExecuteAdd(p)
        \/ Fetch(p)
        \/ Commit(p)
        \/ Close(p)
        \/ Return(p)
        \/ Finish(p)

Spec == Init /\ [][Next]_vars

(* ------------------------------ properties ---------------------------- *)

\* Slot p holds the finished invocation of tool o.
Done(p, o) == pc[p] = "returned" /\ op[p] = o

Ok(p) == result[p].kind = "ok"

Err(p) == result[p].kind = "error"

\* Text that is empty once its whitespace is trimmed.
Blank(s) == \A i \in 1..Len(s) : s[i] \in Whitespace

Invalid(a) ==
    Blank(a.name) \/ Blank(a.position) \/ Blank(a.department) \/ a.salary <= 0

NoDuplicates(s) == \A i, j \in 1..Len(s) : i # j => s[i] # s[j]

\* C1: when list_employees, get_employee_by_id or add_employee has returned,
\* the connection the invocation acquired is closed, on the normal path and
\* on every failure path.
C1_ConnectionClosedOnReturn ==
    \A p \in Procs :
        (pc[p] = "returned" /\ conn[p] # 0) => conn[p] \notin open

\* C2: add_employee with a blank name, position or department, or with
\* salary <= 0, returns an error envelope without any store access: no
\* connection is opened, no statement is attempted, nothing is inserted or
\* persisted.
C2_InvalidAddTouchesNothing ==
    \A p \in Procs :
        (Done(p, "add") /\ Invalid(args[p])) =>
            /\ Err(p)
            /\ steps[p] = << >>
            /\ conn[p] = 0
            /\ pending[p] = {}
            /\ persisted[p] = {}

C2_Witness ==
    \E p \in Procs :
        /\ Done(p, "add") /\ Err(p)
        /\ ~Blank(args[p].name) /\ ~Blank(args[p].position)
        /\ ~Blank(args[p].department) /\ args[p].salary = 0

\* The message the first failing check gives, the messages being those of
\* msgs in the order name, position, department, salary.
FirstFailure(a, msgs) ==
    IF Blank(a.name) THEN msgs[1]
    ELSE IF Blank(a.position) THEN msgs[2]
    ELSE IF Blank(a.department) THEN msgs[3]
    ELSE msgs[4]

SpecMessages ==
    <<"name cannot be empty.", "position cannot be empty.",
      "department cannot be empty.", "salary must be a positive number.">>

CodeMessages ==
    <<"Employee name cannot be empty.", "Employee position cannot be empty.",
      "Employee department cannot be empty.",
      "Employee salary must be a positive number.">>

\* C3 as stated: the checks run in the order name, position, department,
\* salary, the first failing one decides the error, and the messages are
\* "name cannot be empty.", "position cannot be empty.", "department cannot
\* be empty." and "salary must be a positive number.".
C3_SpecMessages ==
    \A p \in Procs :
        (Done(p, "add") /\ Invalid(args[p])) =>
            /\ Err(p)
            /\ result[p].error = <<FirstFailure(args[p], SpecMessages)>>

\* C3 as amended: the checks run in the order name, position, department,
\* salary, the first failing one decides the error, and the four messages
\* are pairwise distinct: "Employee name cannot be empty.", "Employee
\* position cannot be empty.", "Employee department cannot be empty." and
\* "Employee salary must be a positive number.".
C3_FirstFailureMessage ==
    /\ NoDuplicates(CodeMessages)
    /\ \A p \in Procs :
           (Done(p, "add") /\ Invalid(args[p])) =>
               /\ Err(p)
               /\ result[p].error = <<FirstFailure(args[p], CodeMessages)>>

C3_Witness ==
    \E p \in Procs :
        /\ Done(p, "add")
        /\ ~Blank(args[p].name) /\ Blank(args[p].position)
        /\ Blank(args[p].department) /\ args[p].salary <= 0
        /\ result[p].error = <<"Employee position cannot be empty.">>

\* C4: an add_employee that returns {message, employee} has persisted
\* exactly one row, the returned one, by one commit made before the return;
\* an add_employee that returns an error envelope has persisted none.
C4_OneCommittedInsert ==
    \A p \in Procs :
        Done(p, "add") =>
            /\ Ok(p) =>
                  /\ persisted[p] = {result[p].value.employee}
                  /\ persisted[p] \subseteq rows
                  /\ Cardinality({i \in 1..Len(steps[p]) : steps[p][i] = "commit"}) = 1
            /\ Err(p) =>
                  /\ persisted[p] = {}
                  /\ pending[p] \cap rows = {}

C4_Witness ==
    \E p, q \in Procs :
        /\ Done(p, "add") /\ Ok(p)
        /\ Done(q, "add") /\ Err(q) /\ exc[q] = CommitCause

\* C5: no invocation lets an exception reach its caller: a failure of
\* connect, cursor, execute, fetch or commit is returned as an error envelope
\* whose text includes the cause, and a validation failure is returned as an
\* error envelope too.
C5_NoExceptionEscapes ==
    \A p \in Procs :
        pc[p] = "returned" =>
            /\ result[p].kind \in {"ok", "error"}
            /\ exc[p] # "" => (Err(p) /\ exc[p] \in Range(result[p].error))
            /\ (op[p] = "add" /\ Invalid(args[p])) => Err(p)

C5_Witness ==
    \E p, q \in Procs :
        /\ p # q
        /\ pc[p] = "returned" /\ exc[p] = ConnectCause /\ op[p] = "list"
        /\ pc[q] = "returned" /\ exc[q] = ExecuteCause /\ op[q] = "get"

\* C6: a list_employees(limit) with limit >= 0 that does not fail returns at
\* most limit records, latest hire_date first, each a persisted row;
\* list_employees(0) returns the empty sequence.
C6_ListBoundedAndOrdered ==
    \A p \in Procs :
        (Done(p, "list") /\ Ok(p) /\ args[p].limit >= 0) =>
            LET v == result[p].value
            IN /\ Len(v) <= args[p].limit
               /\ \A i \in 1..Len(v) - 1 : v[i].hire_date >= v[i + 1].hire_date
               /\ Range(v) \subseteq rows
               /\ args[p].limit = 0 => v = << >>

C6_Witness ==
    \E p \in Procs :
        /\ Done(p, "list") /\ Ok(p)
        /\ Len(result[p].value) = 2
        /\ Cardinality(rows0[p]) > 2
        /\ result[p].value[1].hire_date > result[p].value[2].hire_date

\* C7: a get_employee_by_id(x) that meets no failure returns None when no
\* persisted row has id x (x <= 0 included), never an error envelope, and
\* returns exactly the row with id x when that row was persisted before the
\* call.
C7_GetByIdRowOrNone ==
    \A p \in Procs :
        (Done(p, "get") /\ exc[p] = "") =>
            LET x == args[p].employee_id
                v == result[p].value
            IN /\ Ok(p)
               /\ x \notin Ids(rows) => v = None
               /\ \A r \in rows0[p] : r.id = x => v = r
               /\ v # None => (v \in rows /\ v.id = x)

C7_Witness ==
    \E p, q \in Procs :
        /\ Done(p, "get") /\ Ok(p) /\ args[p].employee_id = 0
        /\ result[p].value = None /\ rows # {}
        /\ Done(q, "get") /\ Ok(q) /\ result[q].value \in rows

C9_DistinctIdsOwnConnection ==
    /\ \A i, j \in 1..Len(addLog) : i # j => addLog[i].id # addLog[j].id
    /\ \A r, t \in rows : r.id = t.id => r = t
    /\ \A p, q \in Procs : (p # q /\ conn[p] # 0) => conn[p] # conn[q]
    /\ NoDuplicates(acquired)

C9_Witness ==
    /\ Len(addLog) = 2
    /\ \A p \in Procs : Done(p, "add") /\ Ok(p) /\ since[p] = 0

\* C10: a step of list_employees or get_employee_by_id, failed or not,
\* leaves the persisted rows as they are, and any step that changes them is
\* the commit of an add_employee, which adds one row with a new id and
\* keeps every row persisted before as it was.
C10_OnlyAddMutates ==
    [][/\ \A p \in Procs :
              (pc'[p] # pc[p] /\ (op[p] \in {"list", "get"} \/ op'[p] \in {"list", "get"}))
                  => rows' = rows
       /\ rows \subseteq rows'
       /\ rows' # rows =>
              /\ \E p \in Procs : op[p] = "add" /\ pc[p] = "commit" /\ pc'[p] = "close"
              /\ \E r \in rows' : rows' = rows \cup {r} /\ r.id \notin Ids(rows)]_vars

C10_Witness ==
    \E p, q \in Procs :
        /\ Done(p, "add") /\ persisted[p] # {} /\ persisted[p] \subseteq rows
        /\ rows0[p] # {} /\ rows0[p] \subseteq rows
        /\ Done(q, "list") /\ Ok(q)

=============================================================================
